---- MODULE Spec2Model ----
(***************************************************************************)
(* The JSON codec of fefix (src/fefix/src/codec/json.rs): one Codec value  *)
(* holding its dictionaries and its last decoded message, with the two     *)
(* operations Decoder::decode and Encoder::encode.                         *)
(*                                                                         *)
(* serde_json is a library: its parser is modelled by its contract (bytes  *)
(* are either not JSON at all, or the text of one JSON value), and a JSON  *)
(* document is compared as a serde_json::Value, i.e. up to key order and   *)
(* whitespace, which is why Config::pretty_print has no effect here.       *)
(***************************************************************************)
EXTENDS Integers, Sequences, FiniteSets, TLC

VARIABLES dictionaries, message, call, ret, origin, template, specs

vars == <<dictionaries, message, call, ret, origin, template, specs>>

---------------------------------------------------------------------------
(* Bounds of the model. *)

\* the most entries a repeating group array holds
MaxGroupLen == 2
\* the deepest nesting of repeating groups
MaxDepth == 2

---------------------------------------------------------------------------
(* serde_json::Value *)

JNull == [t |-> "null"]
JBool == [t |-> "bool"]
JNumber == [t |-> "number"]
JString(s) == [t |-> "string", s |-> s]
JArray(items) == [t |-> "array", items |-> items]
JObject(m) == [t |-> "object", m |-> m]

\* Value::as_object / Value::as_str / Value::get as Options (a set of at most one)
IsObject(v) == v.t = "object"
IsStr(v) == v.t = "string"
Get(v, key) == IF IsObject(v) /\ key \in DOMAIN v.m THEN {v.m[key]} ELSE {}

\* the bytes handed to decode: not JSON at all, or the text of one JSON value
Garbage == [wf |-> FALSE]
TextOf(v) == [wf |-> TRUE, json |-> v]

\* serde_json::from_reader(data).map_err(|_| Syntax)
FromReaderLenient(data) == IF data.wf THEN {data.json} ELSE {JNull}

FromReader(data) == IF data.wf THEN {data.json} ELSE {}

\* serde_json::Map iterates in key order (a BTreeMap): the names the model
\* uses, sorted as strings
NameOrder ==
    <<"BeginString", "Bogus", "CheckSum", "MDEntryType", "MDReqID",
      "MsgSeqNum", "MsgType", "NoMDEntries">>

InOrder(keys) == SelectSeq(NameOrder, LAMBDA k : k \in keys)

---------------------------------------------------------------------------
(* slr::FixFieldValue and the message T (a map from tag to value) *)

FixString(s) == [t |-> "String", s |-> s]
FixGroup(g) == [t |-> "Group", g |-> g]
\* some other variant of the enum (translate's `_ => panic!()` arm)
FixInt == [t |-> "Int"]

\* T::default()
DefaultMessage == <<>>

\* TsrMessageRef::set_field, BTreeMap::insert: replace or insert
SetField(msg, tag, val) ==
    [x \in (DOMAIN msg) \cup {tag} |-> IF x = tag THEN val ELSE msg[x]]

\* TsrMessageRef::get_field, BTreeMap::get
GetField(msg, tag) == IF tag \in DOMAIN msg THEN {msg[tag]} ELSE {}

---------------------------------------------------------------------------
(* The Dictionary (its code is not in src/: modelled from the specification's *)
(* section 4.2 and from the FIX fields the tests of json.rs use).             *)

Fields ==
    { [tag |-> 8,   name |-> "BeginString"],
      [tag |-> 35,  name |-> "MsgType"],
      [tag |-> 34,  name |-> "MsgSeqNum"],
      [tag |-> 262, name |-> "MDReqID"],
      [tag |-> 268, name |-> "NoMDEntries"],
      [tag |-> 269, name |-> "MDEntryType"],
      [tag |-> 10,  name |-> "CheckSum"] }

StandardHeader == {8, 35, 34}
StandardTrailer == {10}

Versions == {"FIX.4.2", "FIX.4.4"}

\* Dictionary::from_version
FromVersion(v) ==
    [version |-> v, fields |-> Fields,
     components |-> [StandardHeader |-> StandardHeader,
                     StandardTrailer |-> StandardTrailer]]

GetVersion(dict) == dict.version
FieldByName(dict, name) == {f \in dict.fields : f.name = name}
FieldByTag(dict, tag) == {f \in dict.fields : f.tag = tag}
ComponentByName(dict, name) ==
    IF name \in DOMAIN dict.components THEN {dict.components[name]} ELSE {}
ContainsField(component, field) == field.tag \in component

The(S) == CHOOSE x \in S : TRUE

---------------------------------------------------------------------------
(* Results *)

Ok(v) == [status |-> "Ok", value |-> v]
Err(e) == [status |-> "Err", error |-> e]
\* the call does not return: an unwrap() of None or a panic!()
Panic == [status |-> "Panic"]

---------------------------------------------------------------------------
(* Codec::new *)

New(dict) ==
    [dictionaries |-> (GetVersion(dict) :> dict), message |-> DefaultMessage]

---------------------------------------------------------------------------
(* Codec::decode_field and Codec::decode_component_block *)

RECURSIVE DecodeField(_, _, _)
RECURSIVE DecodeComponentBlock(_, _)
RECURSIVE DecodeItems(_, _, _, _)
RECURSIVE DecodeEntries(_, _, _, _)

\* the loop of decode_field over the array's items, from item i on
RECURSIVE DecodeItemsReversed(_, _, _, _)
DecodeItemsReversed(dictionary, values, i, group) ==
    IF i > Len(values) THEN Ok(group)
    ELSE LET r == DecodeComponentBlock(dictionary, values[i])
         IN  IF r.status = "Ok"
             THEN DecodeItemsReversed(dictionary, values, i + 1,
                                      <<r.value>> \o group)
             ELSE r

DecodeItems(dictionary, values, i, group) ==
    IF i > Len(values) THEN Ok(group)
    ELSE LET r == DecodeComponentBlock(dictionary, values[i])
         IN  IF r.status = "Ok"
             THEN DecodeItems(dictionary, values, i + 1, Append(group, r.value))
             ELSE r

DecodeField(dictionary, key, value) ==
    IF FieldByName(dictionary, key) # {}
    THEN LET field == The(FieldByName(dictionary, key))
         IN  CASE value.t = "string" -> Ok(<<field.tag, FixString(value.s)>>)
               [] value.t = "array" ->
                    LET r == DecodeItems(dictionary, value.items, 1, <<>>)
                    IN  IF r.status = "Ok"
                        THEN Ok(<<field.tag, FixGroup(r.value)>>)
                        ELSE r
               [] OTHER -> Err("InvalidData")
    ELSE Err("InvalidData")

\* the loop of decode_component_block over the object's members, from the
\* i-th key on
DecodeEntries(dictionary, obj, keys, group) ==
    IF keys = <<>> THEN Ok(group)
    ELSE LET r == DecodeField(dictionary, Head(keys), obj[Head(keys)])
         IN  IF r.status = "Ok"
             THEN DecodeEntries(dictionary, obj, Tail(keys),
                                SetField(group, r.value[1], r.value[2]))
             ELSE r

DecodeComponentBlock(dictionary, value) ==
    IF IsObject(value)
    THEN DecodeEntries(dictionary, value.m, InOrder(DOMAIN value.m), <<>>)
    ELSE Panic

---------------------------------------------------------------------------
(* Decoder::decode: the codec after the call and what the call returns *)

\* the loop over header.iter().chain(body).chain(trailer), from the first
\* section of `sections` on
RECURSIVE DecodeSections(_, _, _)
DecodeSections(dictionary, sections, msg) ==
    IF sections = <<>> THEN Ok(msg)
    ELSE LET r == DecodeEntries(dictionary, Head(sections),
                                InOrder(DOMAIN Head(sections)), msg)
         IN  IF r.status = "Ok"
             THEN DecodeSections(dictionary, Tail(sections), r.value)
             ELSE r

Returns(self, r) == [self |-> self, ret |-> r]

\* value.get(key).and_then(|v| v.as_object())
MemberOrEmpty(value, key) ==
    IF {v \in Get(value, key) : IsObject(v)} = {}
    THEN {JObject(<<>>)}
    ELSE {v \in Get(value, key) : IsObject(v)}

Member(value, key) == {v \in Get(value, key) : IsObject(v)}

\* header.get(key).and_then(|v| v.as_str())
StrMember(header, key) == {v.s : v \in {x \in Get(header, key) : IsStr(x)}}

\* self.dictionaries.get(field_begin_string)
DictionaryForAny(self, field_begin_string) ==
    IF field_begin_string \in DOMAIN self.dictionaries
    THEN {self.dictionaries[field_begin_string]}
    ELSE {self.dictionaries[k] : k \in DOMAIN self.dictionaries}

DictionaryFor(self, field_begin_string) ==
    IF field_begin_string \in DOMAIN self.dictionaries
    THEN {self.dictionaries[field_begin_string]}
    ELSE {}

\* let mut message = T::default();
StaleMessage(self) == self.message

FreshMessage(self) == DefaultMessage

\* the end of decode: the `?` of the loop returns the error before the
\* assignment self.message = message
StoreCleared(self, r) ==
    IF r.status = "Ok"
    THEN Returns([self EXCEPT !.message = r.value], Ok(r.value))
    ELSE Returns([self EXCEPT !.message = DefaultMessage], r)

Store(self, r) ==
    IF r.status = "Ok"
    THEN Returns([self EXCEPT !.message = r.value], Ok(r.value))
    ELSE Returns(self, r)

DecodeFn(self, data) ==
    IF FromReader(data) = {} THEN Returns(self, Err("Syntax")) ELSE
    LET value == The(FromReader(data))
        header == Member(value, "Header")
        body == Member(value, "Body")
        trailer == Member(value, "Trailer")
    IN
    IF header = {} THEN Returns(self, Err("Schema")) ELSE
    IF body = {} THEN Returns(self, Err("Schema")) ELSE
    IF trailer = {} THEN Returns(self, Err("Schema")) ELSE
    LET field_msg_type == StrMember(The(header), "MsgType")
        field_begin_string == StrMember(The(header), "BeginString")
    IN
    IF field_msg_type = {} THEN Returns(self, Err("Schema")) ELSE
    IF field_begin_string = {} THEN Returns(self, Err("Schema")) ELSE
    IF DictionaryFor(self, The(field_begin_string)) = {}
    THEN Returns(self, Err("InvalidMsgType")) ELSE
    LET dictionary == The(DictionaryFor(self, The(field_begin_string)))
    IN  Store(self, DecodeSections(dictionary,
                        <<The(header).m, The(body).m, The(trailer).m>>,
                        FreshMessage(self)))

---------------------------------------------------------------------------
(* Codec::translate *)

\* the tags of a BTreeMap in iteration order
RECURSIVE Ascending(_)
Ascending(S) ==
    IF S = {} THEN <<>>
    ELSE LET m == CHOOSE x \in S : \A y \in S : x <= y
         IN  <<m>> \o Ascending(S \ {m})

RECURSIVE Translate(_, _)
RECURSIVE TranslateGroups(_, _, _, _)
RECURSIVE TranslateItems(_, _, _, _)

\* the inner loop of translate over one group entry's items
TranslateItems(dict, group, tags, map) ==
    IF tags = <<>> THEN Ok(map)
    ELSE IF FieldByTag(dict, Head(tags)) = {} THEN Panic
    ELSE LET field_name == The(FieldByTag(dict, Head(tags))).name
             field_value == Translate(dict, group[Head(tags)])
         IN  IF field_value.status = "Ok"
             THEN TranslateItems(dict, group, Tail(tags),
                                 SetField(map, field_name, field_value.value))
             ELSE field_value

\* the outer loop of translate over the entries of the group, from entry i on
TranslateGroups(dict, array, i, values) ==
    IF i > Len(array) THEN Ok(values)
    ELSE LET map == TranslateItems(dict, array[i], Ascending(DOMAIN array[i]), <<>>)
         IN  IF map.status = "Ok"
             THEN TranslateGroups(dict, array, i + 1,
                                  Append(values, JObject(map.value)))
             ELSE map

Translate(dict, field) ==
    CASE field.t = "String" -> Ok(JString(field.s))
      [] field.t = "Group" ->
           LET values == TranslateGroups(dict, field.g, 1, <<>>)
           IN  IF values.status = "Ok" THEN Ok(JArray(values.value)) ELSE values
      [] OTHER -> Panic

---------------------------------------------------------------------------
(* Encoder::encode: the codec after the call and what the call returns; an *)
(* Ok carries the document written to the buffer.                          *)

\* which of the three maps a field is inserted into
SectionOfSwapped(component_std_header, component_std_traler, field) ==
    IF ContainsField(component_std_header, field) THEN "Header"
    ELSE IF ContainsField(component_std_traler, field) THEN "Body"
    ELSE "Trailer"

SectionOf(component_std_header, component_std_traler, field) ==
    IF ContainsField(component_std_header, field) THEN "Header"
    ELSE IF ContainsField(component_std_traler, field) THEN "Trailer"
    ELSE "Body"

\* the loop over message.fields.iter()
RECURSIVE EncodeFields(_, _, _, _)
EncodeFields(dictionary, msg, tags, maps) ==
    IF tags = <<>> THEN Ok(maps)
    ELSE IF FieldByTag(dictionary, Head(tags)) = {} THEN Err("Dictionary")
    ELSE LET field == The(FieldByTag(dictionary, Head(tags)))
             field_value == Translate(dictionary, msg[Head(tags)])
             section == SectionOf(
                 The(ComponentByName(dictionary, "StandardHeader")),
                 The(ComponentByName(dictionary, "StandardTrailer")), field)
         IN  IF field_value.status = "Ok"
             THEN EncodeFields(dictionary, msg, Tail(tags),
                      [maps EXCEPT ![section] =
                          SetField(@, field.name, field_value.value)])
             ELSE field_value

\* the dictionary encode selects by the message's tag 8
DictionaryOfAny(self, msg) ==
    {self.dictionaries[k] : k \in DOMAIN self.dictionaries}

DictionaryOf(self, msg) ==
    LET fix_version == {v.s : v \in {x \in GetField(msg, 8) : x.t = "String"}}
    IN  {self.dictionaries[k] : k \in fix_version \cap DOMAIN self.dictionaries}

EncodeFn(self, msg) ==
    IF DictionaryOf(self, msg) = {} THEN Returns(self, Err("Dictionary")) ELSE
    LET dictionary == The(DictionaryOf(self, msg)) IN
    IF ComponentByName(dictionary, "StandardHeader") = {} THEN Returns(self, Panic) ELSE
    IF ComponentByName(dictionary, "StandardTrailer") = {} THEN Returns(self, Panic) ELSE
    LET msg_type == {v \in GetField(msg, 35) : v.t = "String"} IN
    IF msg_type = {} THEN Returns(self, Err("Dictionary")) ELSE
    LET maps == EncodeFields(dictionary, msg, Ascending(DOMAIN msg),
                    [Header |-> ("MsgType" :> JString(The(msg_type).s)),
                     Body |-> <<>>,
                     Trailer |-> <<>>])
    IN  IF maps.status = "Ok"
        THEN Returns(self, Ok(JObject([Header |-> JObject(maps.value.Header),
                                       Body |-> JObject(maps.value.Body),
                                       Trailer |-> JObject(maps.value.Trailer)])))
        ELSE Returns(self, maps)

---------------------------------------------------------------------------
(* The inputs of the model *)

One(k, v) == k :> v

SeqsUpTo(S, n) == UNION {[1..k -> S] : k \in 0..n}

\* a member of the top-level object that is not there
Absent == [t |-> "absent"]

\* the values a field may carry that are neither a string nor an array
Scalars == {JNumber, JBool, JNull, JObject(<<>>)}

\* the elements of an innermost repeating group: two well-formed entries, an
\* entry with a number for a value, an entry with an unknown name, and an
\* element that is no object
LeafEntries ==
    { JObject(One("MDEntryType", JString("0"))),
      JObject(One("MDEntryType", JString("1")) @@ One("MDReqID", JString("a"))),
      JObject(One("MDEntryType", JNumber)),
      JObject(One("Bogus", JString("0"))),
      JNumber }

\* the arrays of nesting depth at most d: an array of leaf entries, or one
\* entry that holds a group of depth d - 1
RECURSIVE Arrays(_)
Arrays(d) ==
    IF d <= 1 THEN {JArray(items) : items \in SeqsUpTo(LeafEntries, MaxGroupLen)}
    ELSE Arrays(d - 1)
         \cup {JArray(<<JObject(One("NoMDEntries", a))>>) : a \in Arrays(d - 1)}

HeaderBase == One("BeginString", JString("FIX.4.4")) @@ One("MsgType", JString("W"))

Headers ==
    { Absent, JNumber, JObject(<<>>),
      JObject(One("BeginString", JString("FIX.4.4"))),
      JObject(One("MsgType", JString("W"))),
      JObject(One("BeginString", JString("FIX.9.9"))),
      JObject(One("BeginString", JString("FIX.9.9")) @@ One("MsgType", JString("W"))),
      JObject(One("BeginString", JNumber) @@ One("MsgType", JString("W"))),
      JObject(One("BeginString", JString("FIX.4.4")) @@ One("MsgType", JNumber)),
      JObject(One("BeginString", JString("FIX.4.4")) @@ One("MsgType", JArray(<<>>))),
      JObject(One("BeginString", JString("FIX.4.2")) @@ One("MsgType", JString("W"))),
      JObject(HeaderBase),
      JObject(HeaderBase @@ One("MsgSeqNum", JString("1"))),
      JObject(HeaderBase @@ One("MDReqID", JString("h"))),
      JObject(HeaderBase @@ One("Bogus", JString("1"))) }

Bodies ==
    { Absent, JNumber, JObject(<<>>),
      JObject(One("MDReqID", JString("a"))),
      JObject(One("Bogus", JString("a"))),
      JObject(One("MsgSeqNum", JString("2"))),
      JObject(One("MsgType", JArray(<<>>))),
      JObject(One("MDReqID", JString("a"))
              @@ One("NoMDEntries", JArray(<<JObject(One("MDEntryType", JString("0")))>>))) }
    \cup {JObject(One("MDReqID", v)) : v \in Scalars}
    \cup {JObject(One("NoMDEntries", a)) : a \in Arrays(MaxDepth)}

Trailers ==
    { Absent, JNumber, JObject(<<>>),
      JObject(One("CheckSum", JString("0"))),
      JObject(One("MDReqID", JString("t"))),
      JObject(One("Bogus", JString("0"))) }

\* the document with the given top-level members
Document(header, body, trailer) ==
    LET all == [Header |-> header, Body |-> body, Trailer |-> trailer]
        present == {k \in DOMAIN all : all[k] # Absent}
    IN  TextOf(JObject([k \in present |-> all[k]]))

\* every input of the one-call specification
Docs ==
    {Garbage, TextOf(JNumber), TextOf(JArray(<<>>)),
     TextOf(JObject([Header |-> JObject(HeaderBase), Body |-> JObject(<<>>),
                     Trailer |-> JObject(<<>>), Extra |-> JString("x")]))}
    \cup {Document(h, b, t) : h \in Headers, b \in Bodies, t \in Trailers}

\* the inputs of a session: a codec called over and over
SessionDocs ==
    LET entry0 == JObject(One("MDEntryType", JString("0")))
        group == JObject(One("NoMDEntries", JArray(<<entry0>>)))
        ok == JObject(HeaderBase)
        none == JObject(<<>>)
    IN  { Garbage, TextOf(JNumber),
          Document(Absent, none, none),
          Document(ok, JNumber, none),
          Document(JObject(One("BeginString", JString("FIX.9.9"))), none, none),
          Document(JObject(One("BeginString", JString("FIX.4.2"))
                           @@ One("MsgType", JString("W"))), none, none),
          Document(ok, none, none),
          Document(ok, JObject(One("MDReqID", JString("a"))),
                   JObject(One("CheckSum", JString("0")))),
          Document(JObject(HeaderBase @@ One("MsgSeqNum", JString("1"))),
                   JObject(One("MsgSeqNum", JString("2"))), none),
          Document(ok, group, JObject(One("Bogus", JString("0")))),
          Document(ok, JObject(One("MDReqID", JNumber)), none),
          Document(ok, JObject(One("NoMDEntries", JArray(<<JNumber>>))), none) }
        \cup {Document(ok, JObject(One("NoMDEntries", JArray(items))), none) :
                 items \in SeqsUpTo({entry0}, MaxGroupLen)}

\* the messages handed to encode in a session, besides the stored one
MessageFields ==
    { One(34, FixString("1")), One(262, FixString("a")), One(10, FixString("0")),
      One(268, FixGroup(<<One(269, FixString("0")), One(269, FixString("1"))>>)),
      One(268, FixGroup(<<One(268, FixGroup(<<One(269, FixString("0"))>>))>>)) }

Envelope(v) == One(8, FixString(v)) @@ One(35, FixString("W"))

RECURSIVE Merge(_)
Merge(S) ==
    IF S = {} THEN <<>> ELSE LET f == The(S) IN f @@ Merge(S \ {f})

SessionMsgs ==
    { <<>>, One(35, FixString("W")), One(8, FixString("FIX.4.4")),
      One(8, FixInt) @@ One(35, FixString("W")),
      One(8, FixGroup(<<>>)) @@ One(35, FixString("W")),
      One(8, FixString("FIX.4.4")) @@ One(35, FixInt),
      Envelope("FIX.9.9"),
      Envelope("FIX.4.4") @@ One(9999, FixString("x")),
      Envelope("FIX.4.4") @@ One(262, FixInt),
      Envelope("FIX.4.4") @@ One(262, FixInt) @@ One(9999, FixString("x")),
      Envelope("FIX.4.4") @@ One(268, FixGroup(<<One(9999, FixString("x"))>>)),
      Envelope("FIX.4.4") @@ One(268, FixGroup(<<One(269, FixInt)>>)) }
    \cup {Envelope(v) @@ Merge(S) : v \in Versions, S \in SUBSET MessageFields}

---------------------------------------------------------------------------
(* The state machine *)

Codec == [dictionaries |-> dictionaries, message |-> message]

NoCall == [op |-> "new"]

Init ==
    /\ \E v \in Versions :
          /\ dictionaries = New(FromVersion(v)).dictionaries
          /\ message = New(FromVersion(v)).message
    /\ call = NoCall
    /\ ret = Ok(<<>>)
    /\ origin = <<>>
    /\ template = NoCall
    /\ specs = <<>>

\* a panic ends the program
Running == ret.status # "Panic"

Decode(data) ==
    /\ Running
    /\ LET out == DecodeFn(Codec, data)
       IN  /\ dictionaries' = out.self.dictionaries
           /\ message' = out.self.message
           /\ call' = [op |-> "decode", data |-> data]
           /\ ret' = out.ret
           /\ origin' = IF out.ret.status = "Ok" THEN <<data>> ELSE origin
           /\ UNCHANGED <<template, specs>>

Encode(msg) ==
    /\ Running
    /\ LET out == EncodeFn(Codec, msg)
       IN  /\ dictionaries' = out.self.dictionaries
           /\ message' = out.self.message
           /\ call' = [op |-> "encode", msg |-> msg]
           /\ ret' = out.ret
           /\ origin' = origin
           /\ UNCHANGED <<template, specs>>

\* a session: any calls of the one codec, in any order
Next ==
    \/ \E data \in SessionDocs : Decode(data)
    \/ \E msg \in SessionMsgs \cup {message} : Encode(msg)

Spec == Init /\ [][Next]_vars

\* test::decode_then_decode over every input: decode once, then encode the
\* message decode returned (the test encodes with a second codec built from
\* the same dictionary; encode reads nothing of a codec but its dictionaries)
DecodeOnce == call.op = "new" /\ \E data \in Docs : Decode(data)

EncodeDecoded == call.op = "decode" /\ ret.status = "Ok" /\ Encode(ret.value)

NextRoundTrip == DecodeOnce \/ EncodeDecoded

RoundTripSpec == Init /\ [][NextRoundTrip]_vars

---------------------------------------------------------------------------
(* FAST templates: the XML tree that roxmltree hands to the loader *)

MaxSeqLen == 2

\* an element node, and a node that is not an element (text, comment)
Element(tag, attrs, children) ==
    [el |-> TRUE, tag |-> tag, attrs |-> attrs, children |-> children]
Text == [el |-> FALSE, text |-> " "]

\* a parsed document (its root node holds the root element), and a text
\* that is not XML
XmlDocument(rootElement) == [el |-> FALSE, children |-> <<rootElement>>]
NotXml == [el |-> FALSE, text |-> "<templates"]

\* roxmltree::Document::parse
XmlParse(xml_document) == IF xml_document = NotXml THEN {} ELSE {xml_document}

\* Node::is_element, Node::children, Node::attribute
IsElement(node) == node.el
Children(node) == IF "children" \in DOMAIN node THEN node.children ELSE <<>>
Attribute(node, name) ==
    IF name \in DOMAIN node.attrs THEN {node.attrs[name]} ELSE {}

\* Node::first_element_child
FirstElementChild(node) ==
    LET at == {i \in DOMAIN Children(node) : IsElement(Children(node)[i])}
    IN  IF at = {} THEN {}
        ELSE {Children(node)[CHOOSE i \in at : \A j \in at : i <= j]}

\* str::parse::<u32> on the attribute texts of the documents below; any
\* other text ("x", "-1") is not the numeral of a u32
Numerals == ("1" :> 1) @@ ("8" :> 8) @@ ("34" :> 34)
ParseU32(text) == IF text \in DOMAIN Numerals THEN {Numerals[text]} ELSE {}

---------------------------------------------------------------------------
(* codec::fast::template *)

Primitive(type) == [kind |-> "Primitive", type |-> type]

\* Template::xml_tag_to_instruction
XmlTagToInstruction(tag) ==
    CASE tag = "string" -> Ok(Primitive("Ascii"))
      [] tag = "uInt32" -> Ok(Primitive("UInt32"))
      [] tag = "int32" -> Ok(Primitive("SInt32"))
      [] tag = "uInt64" -> Ok(Primitive("UInt64"))
      [] tag = "int64" -> Ok(Primitive("SInt64"))
      [] tag = "decimal" -> Ok(Primitive("Decimal"))
      [] tag = "byteVector" -> Ok(Primitive("Decimal"))
      [] tag = "length" -> Ok(Primitive("UInt32"))
      [] OTHER -> Err("S1")

\* FieldInstruction::from_template
FromTemplate(node) ==
    IF Attribute(node, "name") = {} THEN Err("S1")
    ELSE IF Attribute(node, "id") = {} THEN Panic
    ELSE IF ParseU32(The(Attribute(node, "id"))) = {} THEN Panic
    ELSE LET attr == IF Attribute(node, "presence") = {} THEN "true"
                     ELSE The(Attribute(node, "presence"))
             field_type == XmlTagToInstruction(node.tag)
         IN  IF field_type.status # "Ok" THEN field_type
             ELSE Ok([field_type |-> field_type.value,
                      name |-> The(Attribute(node, "name")),
                      id |-> The(ParseU32(The(Attribute(node, "id")))),
                      mandatory |-> (attr = "true"),
                      operator |-> "Constant"])

\* the inner loop of from_xml: the element children of a <sequence>, each
\* pushed in turn, the first failure ending the load
RECURSIVE SequenceInstructions(_)
SequenceInstructions(children) ==
    IF children = <<>> THEN Ok(<<>>)
    ELSE IF ~IsElement(Head(children)) THEN SequenceInstructions(Tail(children))
    ELSE LET instruction == FromTemplate(Head(children))
         IN  IF instruction.status # "Ok" THEN instruction
             ELSE LET rest == SequenceInstructions(Tail(children))
                  IN  IF rest.status # "Ok" THEN rest
                      ELSE Ok(<<instruction.value>> \o rest.value)

\* the outer loop of from_xml over the children of the root
RECURSIVE Instructions(_)
Instructions(children) ==
    IF children = <<>> THEN Ok(<<>>)
    ELSE LET node == Head(children)
             pushed ==
                 IF ~IsElement(node) THEN Ok(<<>>)
                 ELSE IF node.tag = "sequence"
                      THEN SequenceInstructions(Children(node))
                 ELSE IF node.tag = "typeRef" THEN Ok(<<>>)
                 ELSE SequenceInstructions(<<node>>)
         IN  IF pushed.status # "Ok" THEN pushed
             ELSE LET rest == Instructions(Tail(children))
                  IN  IF rest.status # "Ok" THEN rest
                      ELSE Ok(pushed.value \o rest.value)

\* Dictionary::empty()
DictionaryEmpty == [version |-> "", fields |-> {}, components |-> <<>>]

\* Template::from_xml; debug_assert_eq! is checked in a debug build only
FromXml(dict, root, debug) ==
    IF debug /\ root.tag # "template" THEN Panic
    ELSE IF Attribute(root, "name") = {} THEN Panic
    ELSE IF Attribute(root, "id") # {} /\ ParseU32(The(Attribute(root, "id"))) = {}
         THEN Err("S1")
    ELSE LET instructions == Instructions(Children(root))
         IN  IF instructions.status # "Ok" THEN instructions
             ELSE Ok([id |-> IF Attribute(root, "id") = {} THEN {}
                             ELSE ParseU32(The(Attribute(root, "id"))),
                      name |-> The(Attribute(root, "name")),
                      instructions |-> instructions.value,
                      dictionary |-> dict])

\* Template::new
TemplateNew(xml_document, debug) ==
    IF XmlParse(xml_document) = {} THEN Panic
    ELSE LET document == The(XmlParse(xml_document))
             container == The(FirstElementChild(document))
         IN  IF FirstElementChild(container) = {} THEN Panic
             ELSE FromXml(DictionaryEmpty, The(FirstElementChild(container)), debug)

---------------------------------------------------------------------------
(* The template documents handed to Template::new *)

NoAttrs == <<>>
Attrs(name, id) == ("name" :> name) @@ ("id" :> id)

\* the element names of the loader's match, and one it does not know
Tags ==
    {"string", "uInt32", "int32", "uInt64", "int64", "decimal", "byteVector",
     "length"}

\* field elements: <string name="BeginString" id="8"/> of the example
\* template, one element for each element name, and elements whose
\* attributes are missing or wrong
FieldElements ==
    {Element("string", Attrs("BeginString", "8"), <<>>)}
    \cup {Element(tag, Attrs("F", "34"), <<>>) : tag \in Tags \cup {"group"}}
    \cup {Element("string", Attrs("F", "34") @@ ("presence" :> "false"), <<>>),
          Element("string", "id" :> "34", <<>>),
          Element("string", "name" :> "F", <<>>),
          Element("string", Attrs("F", "x"), <<>>),
          Element("uInt32", NoAttrs, <<>>),
          Element("group", "name" :> "F", <<>>)}

Sequence(children) == Element("sequence", NoAttrs, children)
TemplateElement(attrs, children) == Element("template", attrs, children)
Templates(children) == XmlDocument(Element("templates", NoAttrs, children))

\* <templates><template name="t"><sequence>...</sequence></template></templates>
PlainDocs ==
    {Templates(<<TemplateElement("name" :> "t", <<Sequence(children)>>)>>) :
        children \in SeqsUpTo(FieldElements \cup {Text}, MaxSeqLen)}

\* templates with other attributes, and with children before and after the
\* sequence
TemplateAttrs == {"name" :> "t", Attrs("t", "1"), Attrs("t", "x"), "id" :> "1"}
Before ==
    {<<>>, <<Text>>, <<Element("typeRef", "name" :> "T", <<>>)>>,
     <<Element("uInt32", Attrs("Len", "1"), <<>>)>>}
After ==
    {<<>>, <<Sequence(<<Element("string", Attrs("G", "1"), <<>>)>>)>>,
     <<Element("byteVector", Attrs("Raw", "1"), <<>>)>>}
MixedDocs ==
    {Templates(<<TemplateElement(attrs, before \o <<Sequence(children)>> \o after)>>) :
        attrs \in TemplateAttrs, before \in Before, after \in After,
        children \in SeqsUpTo(FieldElements, 1)}

\* documents that are not of the expected shape
OddDocs ==
    {NotXml,
     Templates(<<>>),
     Templates(<<Text>>),
     Templates(<<Text, TemplateElement("name" :> "t", <<>>)>>),
     Templates(<<TemplateElement("name" :> "t", <<>>),
                 TemplateElement("name" :> "u",
                     <<Sequence(<<Element("string", Attrs("F", "34"), <<>>)>>)>>)>>),
     Templates(<<Element("message", "name" :> "t",
                     <<Sequence(<<Element("string", Attrs("F", "34"), <<>>)>>)>>)>>),
     XmlDocument(Element("fix", NoAttrs,
         <<TemplateElement("name" :> "t",
               <<Sequence(<<Element("string", Attrs("F", "34"), <<>>)>>)>>)>>))}

TemplateDocs == PlainDocs \cup MixedDocs \cup OddDocs

\* Template::new(xml_document), the construction of the one Template, in a
\* debug or a release build
LoadTemplate(xml_document, debug) ==
    /\ template = NoCall
    /\ template' = [op |-> "load", xml |-> xml_document, debug |-> debug,
                    ret |-> TemplateNew(xml_document, debug)]
    /\ UNCHANGED <<dictionaries, message, call, ret, origin, specs>>

NextTemplate ==
    \E xml_document \in TemplateDocs, debug \in BOOLEAN :
        LoadTemplate(xml_document, debug)

TemplateSpec == Init /\ [][NextTemplate]_vars

---------------------------------------------------------------------------
(* app::Version and the embedded QuickFIX specifications *)

\* Version::all()
AllVersions ==
    {"Fix40", "Fix41", "Fix42", "Fix43", "Fix44", "Fix50", "Fix50SP1",
     "Fix50SP2", "Fixt11"}

\* the `match self` of get_quickfix_spec
FilenameCopied(version) ==
    CASE version = "Fix40" -> "FIX-4.0.xml"
      [] version = "Fix41" -> "FIX-4.1.xml"
      [] version = "Fix42" -> "FIX-4.2.xml"
      [] version = "Fix43" -> "FIX-4.3.xml"
      [] version = "Fix44" -> "FIX-4.4.xml"
      [] version = "Fix50" -> "FIX-5.0.xml"
      [] version = "Fix50SP1" -> "FIX-5.0.xml"
      [] version = "Fix50SP2" -> "FIX-5.0-SP2.xml"
      [] version = "Fixt11" -> "FIXT-1.1.xml"

Filename(version) ==
    CASE version = "Fix40" -> "FIX-4.0.xml"
      [] version = "Fix41" -> "FIX-4.1.xml"
      [] version = "Fix42" -> "FIX-4.2.xml"
      [] version = "Fix43" -> "FIX-4.3.xml"
      [] version = "Fix44" -> "FIX-4.4.xml"
      [] version = "Fix50" -> "FIX-5.0.xml"
      [] version = "Fix50SP1" -> "FIX-5.0-SP1.xml"
      [] version = "Fix50SP2" -> "FIX-5.0-SP2.xml"
      [] version = "Fixt11" -> "FIXT-1.1.xml"

\* the folder resources/quickfix/ embedded in the binary (the files are not
\* in src/: one per version, as the specification's section 4.1 has it, each
\* the text of a <fix> document of its own)
EmbeddedFiles ==
    {"FIX-4.0.xml", "FIX-4.1.xml", "FIX-4.2.xml", "FIX-4.3.xml", "FIX-4.4.xml",
     "FIX-5.0.xml", "FIX-5.0-SP1.xml", "FIX-5.0-SP2.xml", "FIXT-1.1.xml"}

QuickFixDicts == [f \in EmbeddedFiles |-> <<"<fix>", f, "</fix>">>]

\* QuickFixDicts::get(filename)
QuickFixDictsGet(filename) ==
    IF filename \in DOMAIN QuickFixDicts THEN {QuickFixDicts[filename]} ELSE {}

\* Version::get_quickfix_spec: .expect(filename) panics on a missing file
GetQuickfixSpec(version) ==
    IF QuickFixDictsGet(Filename(version)) = {} THEN Panic
    ELSE Ok(The(QuickFixDictsGet(Filename(version))))

\* a caller asks for the specification of a version and keeps the answer
AskSpec(version) ==
    /\ \A v \in DOMAIN specs : specs[v].status # "Panic"
    /\ version \notin DOMAIN specs
    /\ specs' = [v \in DOMAIN specs \cup {version} |->
                    IF v = version THEN GetQuickfixSpec(version) ELSE specs[v]]
    /\ UNCHANGED <<dictionaries, message, call, ret, origin, template>>

\* test::all_versions_have_quickfix_spec and its two companions, with the
\* versions asked in any order
NextVersions == \E version \in AllVersions : AskSpec(version)

VersionsSpec == Init /\ [][NextVersions]_vars

---------------------------------------------------------------------------
(* What the properties say of an input document, in the words of the       *)
(* JSON wire format: none of this is used by the operations above.         *)

Sections == {"Header", "Body", "Trailer"}

\* the one dictionary the codec was built with
Held == {dictionaries[k] : k \in DOMAIN dictionaries}
KnownNames == {f.name : f \in UNION {d.fields : d \in Held}}
TagOf(name) == The({f.tag : f \in {x \in UNION {d.fields : d \in Held} : x.name = name}})

IsText(data) == data.wf
Top(data) == data.json

\* Header, Body and Trailer are all there and all objects
HasSections(data) ==
    /\ IsText(data)
    /\ Top(data).t = "object"
    /\ \A sec \in Sections :
          sec \in DOMAIN Top(data).m /\ Top(data).m[sec].t = "object"

Section(data, sec) == Top(data).m[sec].m

HasStr(m, key) == key \in DOMAIN m /\ m[key].t = "string"

\* the input gets past the section, MsgType and BeginString checks
PassesEnvelope(data) ==
    /\ HasSections(data)
    /\ HasStr(Section(data, "Header"), "MsgType")
    /\ HasStr(Section(data, "Header"), "BeginString")
    /\ Section(data, "Header")["BeginString"].s \in DOMAIN dictionaries

\* some key of the object, or of an entry of a group in it at any depth, is
\* not a field name
RECURSIVE HasUnknownName(_)
HasUnknownName(m) ==
    \E k \in DOMAIN m :
       \/ k \notin KnownNames
       \/ /\ m[k].t = "array"
          /\ \E i \in 1..Len(m[k].items) :
                /\ m[k].items[i].t = "object"
                /\ HasUnknownName(m[k].items[i].m)

\* some known field of the object, or of a group entry in it, carries a
\* value that is neither a string nor an array of objects only
RECURSIVE HasBadValue(_)
HasBadValue(m) ==
    \E k \in DOMAIN m \cap KnownNames :
       \/ m[k].t \notin {"string", "array"}
       \/ /\ m[k].t = "array"
          /\ \E i \in 1..Len(m[k].items) :
                \/ m[k].items[i].t # "object"
                \/ /\ m[k].items[i].t = "object"
                   /\ HasBadValue(m[k].items[i].m)

\* all keys are field names and all values strings or arrays of objects
RECURSIVE PlainObject(_)
PlainObject(m) ==
    \A k \in DOMAIN m :
       /\ k \in KnownNames
       /\ \/ m[k].t = "string"
          \/ /\ m[k].t = "array"
             /\ \A i \in 1..Len(m[k].items) :
                   /\ m[k].items[i].t = "object"
                   /\ PlainObject(m[k].items[i].m)

\* a well-formed FIX-JSON message as the round-trip property has it (an
\* object of exactly the three sections, with Header.MsgType present as a
\* string, the only value the format gives it)
WellFormed(data) ==
    /\ HasSections(data)
    /\ DOMAIN Top(data).m = Sections
    /\ HasStr(Section(data, "Header"), "MsgType")
    /\ HasStr(Section(data, "Header"), "BeginString")
    /\ Section(data, "Header")["BeginString"].s \in DOMAIN dictionaries
    /\ \A sec \in Sections : PlainObject(Section(data, sec))

\* the section the dictionary gives a field name
Home(name) ==
    LET d == The(Held)
    IN  IF TagOf(name) \in d.components.StandardHeader THEN "Header"
        ELSE IF TagOf(name) \in d.components.StandardTrailer THEN "Trailer"
        ELSE "Body"

\* every key sits in the section of its field
InPlace(data) ==
    \A sec \in Sections : \A k \in DOMAIN Section(data, sec) : Home(k) = sec

---------------------------------------------------------------------------
(* C1: the JSON round trip *)

\* C1 as stated: for every well-formed J (the three sections, a recognized
\* BeginString, MsgType present, all keys field names, values strings or
\* arrays of objects) decode succeeds and encoding its message gives J back.
C1_RoundTripAsStated ==
    /\ (call.op = "decode" /\ WellFormed(call.data)) => ret.status = "Ok"
    /\ (call.op = "encode" /\ WellFormed(origin[1]))
          => ret = Ok(Top(origin[1]))

\* C1 amended: the same for every well-formed J (Header.MsgType a string)
\* whose keys each sit in the section of their field: Header keys are fields
\* of StandardHeader, Trailer keys fields of StandardTrailer, Body keys
\* fields of neither.
C1_RoundTrip ==
    /\ (call.op = "decode" /\ WellFormed(call.data) /\ InPlace(call.data))
          => ret.status = "Ok"
    /\ (call.op = "encode" /\ WellFormed(origin[1]) /\ InPlace(origin[1]))
          => ret = Ok(Top(origin[1]))

\* a message with a two-entry group and a trailer field went round
C1_Witness ==
    /\ call.op = "encode"
    /\ WellFormed(origin[1]) /\ InPlace(origin[1])
    /\ "NoMDEntries" \in DOMAIN Section(origin[1], "Body")
    /\ Len(Section(origin[1], "Body")["NoMDEntries"].items) = 2
    /\ "CheckSum" \in DOMAIN Section(origin[1], "Trailer")
    /\ ret = Ok(Top(origin[1]))

---------------------------------------------------------------------------
(* C2: encode partitions the fields *)

\* C2: on every successful encode the output has exactly the members Header,
\* Body and Trailer, and every top-level field of the message is found under
\* its name in exactly one of them: Header for a field of StandardHeader,
\* else Trailer for a field of StandardTrailer, else Body.
C2_EncodePartitions ==
    (call.op = "encode" /\ ret.status = "Ok") =>
        LET d == dictionaries[call.msg[8].s]
            out == ret.value
        IN  /\ out.t = "object"
            /\ DOMAIN out.m = Sections
            /\ \A sec \in Sections : out.m[sec].t = "object"
            /\ \A tag \in DOMAIN call.msg :
                  LET name == The({f.name : f \in {x \in d.fields : x.tag = tag}})
                      want == IF tag \in d.components.StandardHeader THEN "Header"
                              ELSE IF tag \in d.components.StandardTrailer THEN "Trailer"
                              ELSE "Body"
                  IN  \A sec \in Sections :
                         (name \in DOMAIN out.m[sec].m) <=> (sec = want)

\* a message with a field for each of the three sections was encoded
C2_Witness ==
    /\ call.op = "encode" /\ ret.status = "Ok"
    /\ {34, 262, 268, 10} \subseteq DOMAIN call.msg
    /\ "CheckSum" \in DOMAIN ret.value.m["Trailer"].m
    /\ "MDReqID" \in DOMAIN ret.value.m["Body"].m

---------------------------------------------------------------------------
(* C3: a failed decode *)

\* the codec as constructed, with the dictionaries of this one
Fresh == [dictionaries |-> dictionaries, message |-> DefaultMessage]

\* C3: a decode call that returns an error leaves the stored message (and the
\* dictionaries) as they were, and a decode that follows a failed one and
\* succeeds returns the message a fresh codec returns for that input.
C3_FailedDecodeKeepsCodec ==
    [][ /\ (call'.op = "decode" /\ ret'.status = "Err")
             => (message' = message /\ dictionaries' = dictionaries)
        /\ (call.op = "decode" /\ ret.status = "Err"
            /\ call'.op = "decode" /\ ret'.status = "Ok")
             => /\ ret' = DecodeFn(Fresh, call'.data).ret
                /\ message' = ret'.value ]_vars

\* a decode failed at a field of the trailer, after the header and body
\* fields had been translated, on a codec that holds an earlier message
C3_Witness ==
    /\ call.op = "decode" /\ ret = Err("InvalidData")
    /\ HasSections(call.data) /\ "NoMDEntries" \in DOMAIN Section(call.data, "Body")
    /\ message # DefaultMessage
    /\ 268 \notin DOMAIN message

---------------------------------------------------------------------------
(* C4: the stored message *)

\* the value a section gives a name last: Trailer, else Body, else Header
LastValue(data, name) ==
    IF name \in DOMAIN Section(data, "Trailer") THEN Section(data, "Trailer")[name]
    ELSE IF name \in DOMAIN Section(data, "Body") THEN Section(data, "Body")[name]
    ELSE Section(data, "Header")[name]

NamesOf(data) == UNION {DOMAIN Section(data, sec) : sec \in Sections}

\* msg holds a field for each name of the input and no other, a string under
\* a name whose value is a string, a group with as many entries as the array
\* under a name whose value is an array
HoldsFieldsOf(msg, data) ==
    /\ DOMAIN msg = {TagOf(name) : name \in NamesOf(data)}
    /\ \A name \in NamesOf(data) :
          LET v == LastValue(data, name)
              f == msg[TagOf(name)]
          IN  \/ v.t = "string" /\ f = FixString(v.s)
              \/ v.t = "array" /\ f.t = "Group" /\ Len(f.g) = Len(v.items)

\* C4: the stored message holds exactly the fields of the input of the last
\* successful decode (and is what that decode returned), through every later
\* encode call; before any successful decode it is the default message.
C4_StoredMessage ==
    /\ origin = <<>> => message = DefaultMessage
    /\ origin # <<>> => HoldsFieldsOf(message, origin[1])
    /\ (call.op = "decode" /\ ret.status = "Ok") => ret.value = message

\* the codec holds a decoded message with a group while it has just encoded
\* another message
C4_Witness ==
    /\ call.op = "encode" /\ ret.status = "Ok"
    /\ origin # <<>>
    /\ call.msg # message
    /\ 268 \in DOMAIN message
    /\ 10 \in DOMAIN call.msg

---------------------------------------------------------------------------
(* C5: the three sections *)

\* C5: decode of a well-formed JSON document in which Header, Body or Trailer
\* is absent or is no object returns Schema, whatever the other members
\* contain.
C5_MissingSectionIsSchema ==
    (call.op = "decode" /\ IsText(call.data) /\ ~HasSections(call.data))
        => ret = Err("Schema")

\* the Trailer alone is missing, under a header that names the codec's
\* dictionary and a body with a group
C5_Witness ==
    /\ call.op = "decode" /\ IsText(call.data) /\ Top(call.data).t = "object"
    /\ DOMAIN Top(call.data).m = {"Header", "Body"}
    /\ Top(call.data).m["Header"].t = "object"
    /\ Top(call.data).m["Body"].t = "object"
    /\ HasStr(Top(call.data).m["Header"].m, "MsgType")
    /\ HasStr(Top(call.data).m["Header"].m, "BeginString")
    /\ Top(call.data).m["Header"].m["BeginString"].s \in DOMAIN dictionaries
    /\ "NoMDEntries" \in DOMAIN Top(call.data).m["Body"].m
    /\ ret = Err("Schema")

---------------------------------------------------------------------------
(* C6: the dictionary is selected by Header.BeginString *)

\* decode went on to translate the fields
Translated == ret.status \in {"Ok", "Panic"} \/ ret = Err("InvalidData")

\* C6 as stated: with the three sections there, an absent or non-string
\* BeginString gives Schema, a BeginString string the codec holds no
\* dictionary for gives InvalidMsgType, and only a BeginString equal to the
\* version of a held dictionary lets decode go on to the fields.
C6_BeginStringAsStated ==
    (call.op = "decode" /\ HasSections(call.data)) =>
        LET header == Section(call.data, "Header")
        IN  /\ ~HasStr(header, "BeginString") => ret = Err("Schema")
            /\ (HasStr(header, "BeginString")
                /\ header["BeginString"].s \notin {GetVersion(d) : d \in Held})
                  => ret = Err("InvalidMsgType")
            /\ Translated
                  => /\ HasStr(header, "BeginString")
                     /\ header["BeginString"].s \in {GetVersion(d) : d \in Held}

\* C6 amended: the same, with InvalidMsgType returned for an unregistered
\* BeginString when Header.MsgType is a string; when MsgType is absent or no
\* string the MsgType check comes first and decode returns Schema.
C6_BeginString ==
    (call.op = "decode" /\ HasSections(call.data)) =>
        LET header == Section(call.data, "Header")
        IN  /\ ~HasStr(header, "BeginString") => ret = Err("Schema")
            /\ (HasStr(header, "BeginString")
                /\ header["BeginString"].s \notin {GetVersion(d) : d \in Held})
                  => IF HasStr(header, "MsgType")
                     THEN ret = Err("InvalidMsgType")
                     ELSE ret = Err("Schema")
            /\ Translated
                  => /\ HasStr(header, "BeginString")
                     /\ header["BeginString"].s \in {GetVersion(d) : d \in Held}

\* a BeginString of another FIX version than the codec's, MsgType a string
C6_Witness ==
    /\ call.op = "decode" /\ HasSections(call.data)
    /\ HasStr(Section(call.data, "Header"), "MsgType")
    /\ HasStr(Section(call.data, "Header"), "BeginString")
    /\ Section(call.data, "Header")["BeginString"].s \in Versions \ DOMAIN dictionaries
    /\ ret = Err("InvalidMsgType")

---------------------------------------------------------------------------
(* C7: bytes that are not JSON *)

\* C7: decode of bytes that are not well-formed JSON returns Syntax, in every
\* state of the codec.
C7_MalformedIsSyntax ==
    (call.op = "decode" /\ ~IsText(call.data)) => ret = Err("Syntax")

\* malformed bytes came to a codec that holds a decoded message
C7_Witness ==
    /\ call.op = "decode" /\ ~IsText(call.data)
    /\ message # DefaultMessage
    /\ ret = Err("Syntax")

---------------------------------------------------------------------------
(* C8: unknown names *)

\* C8: for every input that gets past the section, MsgType and BeginString
\* checks, if a key of Header, Body or Trailer, or of an entry of a group at
\* any depth, is no field name of the dictionary, decode returns InvalidData.
C8_UnknownNameIsInvalidData ==
    (call.op = "decode" /\ PassesEnvelope(call.data)
     /\ \E sec \in Sections : HasUnknownName(Section(call.data, sec)))
        => ret = Err("InvalidData")

---------------------------------------------------------------------------
(* C9: values that fail translation *)

\* C9: for every input that gets past the section, MsgType and BeginString
\* checks, if the value of a known field, in a section or in a group entry,
\* is neither a string nor an array of objects only, decode returns
\* InvalidData (it returns: the program is not aborted).
C9_BadValueIsInvalidData ==
    (call.op = "decode" /\ PassesEnvelope(call.data)
     /\ \E sec \in Sections : HasBadValue(Section(call.data, sec)))
        => ret = Err("InvalidData")

---------------------------------------------------------------------------
(* C10: encode without a dictionary *)

\* C10: encode returns Dictionary when the message's tag 8 is missing, is no
\* string value, or names a version the codec holds no dictionary for.
C10_EncodeNeedsDictionary ==
    (call.op = "encode"
     /\ \/ 8 \notin DOMAIN call.msg
        \/ call.msg[8].t # "String"
        \/ call.msg[8].s \notin DOMAIN dictionaries)
        => ret = Err("Dictionary")

\* tag 8 names the other FIX version, in a message that is fine otherwise
C10_Witness ==
    /\ call.op = "encode"
    /\ {8, 35, 262} \subseteq DOMAIN call.msg
    /\ call.msg[8].t = "String" /\ call.msg[35].t = "String"
    /\ call.msg[8].s \in Versions \ DOMAIN dictionaries
    /\ ret = Err("Dictionary")

---------------------------------------------------------------------------
(* C11 to C13: FAST template loading *)

\* a load has been made
Loaded == template.op = "load"

\* the first element of the container, which the loader takes as the template
TemplateNode(doc) == The(FirstElementChild(The(FirstElementChild(doc))))

\* <templates><template name=..><sequence>..</sequence></template></templates>
\* with a template id that is a u32 or absent, and nothing else
Shaped(doc) ==
    /\ doc # NotXml
    /\ The(FirstElementChild(doc)).tag = "templates"
    /\ Len(Children(The(FirstElementChild(doc)))) = 1
    /\ FirstElementChild(The(FirstElementChild(doc))) # {}
    /\ TemplateNode(doc).tag = "template"
    /\ Attribute(TemplateNode(doc), "name") # {}
    /\ \A id \in Attribute(TemplateNode(doc), "id") : ParseU32(id) # {}
    /\ Len(Children(TemplateNode(doc))) = 1
    /\ FirstElementChild(TemplateNode(doc)) # {}
    /\ The(FirstElementChild(TemplateNode(doc))).tag = "sequence"

\* the element children of the template's <sequence>, in document order
SequenceElements(doc) ==
    LET sequences == SelectSeq(Children(TemplateNode(doc)),
                               LAMBDA n : IsElement(n) /\ n.tag = "sequence")
    IN  IF sequences = <<>> THEN <<>>
        ELSE SelectSeq(Children(Head(sequences)), IsElement)

\* an instruction element with a name and an id that is a u32
Complete(element) ==
    /\ Attribute(element, "name") # {}
    /\ Attribute(element, "id") # {}
    /\ \A id \in Attribute(element, "id") : ParseU32(id) # {}

\* the table of the claim
TypeTable ==
    ("string" :> "Ascii") @@ ("uInt32" :> "UInt32") @@ ("length" :> "UInt32")
    @@ ("int32" :> "SInt32") @@ ("uInt64" :> "UInt64") @@ ("int64" :> "SInt64")
    @@ ("decimal" :> "Decimal") @@ ("byteVector" :> "Bytes")

\* C11: loading maps every instruction element name to its primitive type by
\* the table (string to Ascii, uInt32 and length to UInt32, int32 to SInt32,
\* uInt64 to UInt64, int64 to SInt64, decimal to Decimal, byteVector to
\* Bytes); any other element name makes the load fail with a static error
\* and no Template.
C11_TagTable ==
    (/\ Loaded
     /\ Shaped(template.xml)
     /\ \A i \in DOMAIN SequenceElements(template.xml) :
            Complete(SequenceElements(template.xml)[i]))
    => LET elements == SequenceElements(template.xml)
       IN  IF \A i \in DOMAIN elements : elements[i].tag \in DOMAIN TypeTable
           THEN /\ template.ret.status = "Ok"
                /\ Len(template.ret.value.instructions) = Len(elements)
                /\ \A i \in DOMAIN elements :
                       template.ret.value.instructions[i].field_type
                           = Primitive(TypeTable[elements[i].tag])
           ELSE template.ret.status = "Err"

\* C12: a template document in which some instruction element lacks name,
\* lacks id, or has an id that is not a u32 makes the load return a static
\* error: it neither aborts nor returns a Template.
C12_MissingAttributeIsStatic ==
    (/\ Loaded
     /\ Shaped(template.xml)
     /\ \E i \in DOMAIN SequenceElements(template.xml) :
            ~Complete(SequenceElements(template.xml)[i]))
    => template.ret.status = "Err"

\* C13: the instruction list of a loaded Template is exactly the element
\* children of the template's <sequence>, in document order: instruction i
\* has the name, id and primitive kind of the i-th such element, and no other
\* element of the document contributes an instruction.
C13_InstructionsAreSequence ==
    (Loaded /\ template.ret.status = "Ok")
    => LET elements == SequenceElements(template.xml)
           instructions == template.ret.value.instructions
       IN  /\ Len(instructions) = Len(elements)
           /\ \A i \in DOMAIN elements :
                  /\ instructions[i].name = elements[i].attrs.name
                  /\ {instructions[i].id} = ParseU32(elements[i].attrs.id)
                  /\ instructions[i].field_type
                         = Primitive(TypeTable[elements[i].tag])

---------------------------------------------------------------------------
(* C14: the embedded specifications *)

\* C14: every one of the nine Versions resolves to an embedded QuickFIX
\* specification that exists and is not empty, and no two Versions resolve to
\* the same specification.
C14_VersionsResolve ==
    /\ \A v \in DOMAIN specs : specs[v].status = "Ok" /\ Len(specs[v].value) > 0
    /\ \A v, w \in DOMAIN specs : v # w => specs[v] # specs[w]
    /\ Cardinality(AllVersions) = 9
    /\ \A v \in AllVersions \ DOMAIN specs : ENABLED AskSpec(v)

\* all nine versions were asked and answered
C14_Witness ==
    /\ DOMAIN specs = AllVersions
    /\ \A v \in AllVersions : specs[v].status = "Ok"

====
